---- MODULE Spec2Model ----
(***************************************************************************)
(* Model of the configuration store of Claude Code Interceptor             *)
(* (cci/config.py), of the name normalizer (cci/utils/config_utils.py)     *)
(* and of the model discovery client (cci/utils/models_fetch.py).          *)
(*                                                                         *)
(* Strings that the code takes apart (configuration names, URLs) are       *)
(* sequences of one-character / one-token strings; every other string is   *)
(* a TLA+ string.  Python's None is None (a name), NoModel (a model id).   *)
(***************************************************************************)
EXTENDS Integers, Sequences, FiniteSets, TLC

VARIABLES config, file, pre, last, peer

vars == <<config, file, pre, last, peer>>

----------------------------------------------------------------------------
(* Bounds *)

MaxConfigs == 2
MaxRichLen == 3
MaxNormLen == 4
MaxUrlSegs == 2
MaxUrlSlashes == 2
MaxItems == 2

----------------------------------------------------------------------------
(* Generic helpers *)

RECURSIVE SeqsUpTo(_, _)
SeqsUpTo(S, n) ==
    IF n = 0 THEN {<<>>}
    ELSE LET shorter == SeqsUpTo(S, n - 1)
         IN  shorter \cup {Append(s, c) : s \in {t \in shorter : Len(t) = n - 1}, c \in S}

\* Python None where a configuration name is expected
None == <<"None">>

\* Python None where a model id is expected
NoModel == "None"

----------------------------------------------------------------------------
(* cci/utils/config_utils.py *)

LowerLetters ==
    {"a", "b", "c", "d", "e", "f", "g", "h", "i", "j", "k", "l", "m",
     "n", "o", "p", "q", "r", "s", "t", "u", "v", "w", "x", "y", "z"}

Digits == {"0", "1", "2", "3", "4", "5", "6", "7", "8", "9"}

\* str.lower() on one character
LowerChar(c) ==
    CASE c = "A" -> "a"
      [] c = "B" -> "b"
      [] c = "Q" -> "q"
      [] c = "Z" -> "z"
      [] OTHER -> c

Lower(s) == [i \in 1..Len(s) |-> LowerChar(s[i])]

\* .replace(' ', '-').replace('_', '-')
ReplaceSeparators(s) ==
    [i \in 1..Len(s) |-> IF s[i] = " " \/ s[i] = "_" THEN "-" ELSE s[i]]

\* re.sub(r'[^a-z0-9\-]', '', s)
RECURSIVE RemoveInvalid(_)
RemoveInvalid(s) ==
    IF s = <<>> THEN <<>>
    ELSE IF Head(s) \in LowerLetters \cup Digits \cup {"-"}
         THEN <<Head(s)>> \o RemoveInvalid(Tail(s))
         ELSE RemoveInvalid(Tail(s))

RECURSIVE LStripDash(_)
LStripDash(s) ==
    IF s # <<>> /\ Head(s) = "-" THEN LStripDash(Tail(s)) ELSE s

RECURSIVE RStripDash(_)
RStripDash(s) ==
    IF s # <<>> /\ s[Len(s)] = "-" THEN RStripDash(SubSeq(s, 1, Len(s) - 1)) ELSE s

\* lstrip('-') in place of strip('-')
StripDash_left(s) == LStripDash(s)

\* s.strip('-')
StripDash(s) == RStripDash(LStripDash(s))

\* re.sub(r'-+', '-', s)
RECURSIVE CollapseDashes(_)
CollapseDashes(s) ==
    IF Len(s) < 2 THEN s
    ELSE IF s[1] = "-" /\ s[2] = "-"
         THEN CollapseDashes(Tail(s))
         ELSE <<Head(s)>> \o CollapseDashes(Tail(s))

\* normalize_config_name without the strip('-') step
normalize_config_name_nostrip(name) ==
    CollapseDashes(RemoveInvalid(ReplaceSeparators(Lower(name))))

normalize_config_name(name) ==
    CollapseDashes(StripDash(RemoveInvalid(ReplaceSeparators(Lower(name)))))

----------------------------------------------------------------------------
(* cci/utils/models_fetch.py *)

\* A URL is a sequence of tokens: scheme and host, then "/" and path segments.
NoUrl == <<"None">>

RECURSIVE RStripSlash(_)
RStripSlash(u) ==
    IF u # <<>> /\ u[Len(u)] = "/" THEN RStripSlash(SubSeq(u, 1, Len(u) - 1)) ELSE u

normalize_base_url(base_url) ==
    LET stripped == RStripSlash(base_url)
        n == Len(stripped)
    IN  IF n >= 3 /\ stripped[n - 1] = "/" /\ stripped[n] = "v1"
        THEN RStripSlash(SubSeq(stripped, 1, n - 2))
        ELSE stripped

\* the candidates in the opposite order
test_paths_reversed == << <<"/", "models">>, <<"/", "v1", "/", "models">> >>

\* urljoin(normalized_base + '/', path.lstrip('/')) appends the path when the
\* base is scheme://host followed by non-empty plain path segments.
test_paths == << <<"/", "v1", "/", "models">>, <<"/", "models">> >>

\* Outcome of one requests.get in discover_models_endpoint:
\* status 200, any other status, or a requests.RequestException.
ProbeOutcomes == {"200", "status", "error"}

\* probes[i] is the outcome the i-th candidate gets if it is requested.
\* The result carries the endpoint (or NoUrl) and the requests issued, in order.
RECURSIVE discover_from(_, _, _, _)
discover_from(normalized_base, probes, i, requests) ==
    IF i > Len(test_paths) THEN [endpoint |-> NoUrl, requests |-> requests]
    ELSE LET endpoint_url == normalized_base \o test_paths[i]
         IN  IF probes[i] = "200"
             THEN [endpoint |-> endpoint_url, requests |-> Append(requests, endpoint_url)]
             ELSE discover_from(normalized_base, probes, i + 1, Append(requests, endpoint_url))

discover_models_endpoint(base_url, probes) ==
    discover_from(normalize_base_url(base_url), probes, 1, <<>>)

(* JSON documents.  Every document is a record of the same shape; kind says
   which fields are meaningful:
     dict : data, models (each present or not, a list or not), other (some
            further key is present)
     list : items
     str  : text
     num  : num
     null : Python None *)
Item(kind, hasId, val) == [kind |-> kind, hasId |-> hasId, val |-> val]

IdItem(id) == Item("dict", TRUE, id)
StrItem(s) == Item("str", FALSE, s)

Field(present, isList, items) == [present |-> present, isList |-> isList, items |-> items]

NoField == Field(FALSE, FALSE, <<>>)
ListField(items) == Field(TRUE, TRUE, items)
ScalarField == Field(TRUE, FALSE, <<>>)

MkDoc(kind, data, models, other, items, text, num) ==
    [kind |-> kind, data |-> data, models |-> models, other |-> other,
     items |-> items, text |-> text, num |-> num]

DictDoc(data, models, other) == MkDoc("dict", data, models, other, <<>>, "", 0)
ListDoc(items) == MkDoc("list", NoField, NoField, FALSE, items, "", 0)
StrDoc(text) == MkDoc("str", NoField, NoField, FALSE, <<>>, text, 0)
NumDoc(num) == MkDoc("num", NoField, NoField, FALSE, <<>>, "", num)
NullDoc == MkDoc("null", NoField, NoField, FALSE, <<>>, "", 0)

\* Python truthiness of a parsed document
Truthy(doc) ==
    CASE doc.kind = "dict" -> doc.data.present \/ doc.models.present \/ doc.other
      [] doc.kind = "list" -> doc.items # <<>>
      [] doc.kind = "str"  -> doc.text # ""
      [] doc.kind = "num"  -> doc.num # 0
      [] OTHER -> FALSE

\* Texts of the modelled string documents that contain the given key as a substring
TextsContaining(key) ==
    IF key = "data" THEN {"data", "metadata"} ELSE {"models"}

\* Outcome of one requests.get in fetch_models: a transport error, an error
\* status (raise_for_status raises HTTPError), a body that is not JSON, or a
\* parsed document.
GetOutcome(kind, doc) == [kind |-> kind, doc |-> doc]

GetOutcomes(docs) ==
    {GetOutcome(k, NullDoc) : k \in {"error", "httperror", "badjson"}}
        \cup {GetOutcome("json", d) : d \in docs}

\* A net fixes what the remote side answers during one fetch_models call.
\* jsonErrIsRequestException: whether the installed requests raises a
\* JSONDecodeError that derives from RequestException (2.27 and later) or a
\* plain ValueError.
Nets(docs) ==
    [probes : [1..2 -> ProbeOutcomes], get : GetOutcomes(docs),
     jsonErrIsRequestException : BOOLEAN]

Returned(doc) == [raised |-> FALSE, doc |-> doc]
Raised == [raised |-> TRUE, doc |-> NullDoc]

fetch_models(base_url, net) ==
    LET models_endpoint == discover_models_endpoint(base_url, net.probes).endpoint
    IN  IF models_endpoint = NoUrl THEN Returned(NullDoc)
        ELSE CASE net.get.kind \in {"error", "httperror"} -> Returned(NullDoc)
               [] net.get.kind = "badjson" ->
                    IF net.jsonErrIsRequestException THEN Returned(NullDoc) ELSE Raised
               [] OTHER -> Returned(net.get.doc)

\* `key in models_data`; "TypeError" when models_data is not iterable
Contains(doc, key) ==
    CASE doc.kind = "dict" -> IF key = "data" THEN doc.data.present ELSE doc.models.present
      [] doc.kind = "list" ->
            \E i \in 1..Len(doc.items) : doc.items[i].kind = "str" /\ doc.items[i].val = key
      [] doc.kind = "str"  -> doc.text \in TextsContaining(key)
      [] OTHER -> FALSE

ContainsRaises(doc) == doc.kind \notin {"dict", "list", "str"}

\* models_data[key] raises TypeError unless models_data is a dict
SubscriptRaises(doc) == doc.kind # "dict"

RECURSIVE ExtractIds(_, _)
ExtractIds(items, withStrings) ==
    IF items = <<>> THEN <<>>
    ELSE LET model == Head(items)
             rest  == ExtractIds(Tail(items), withStrings)
         IN  IF model.kind = "dict" /\ model.hasId THEN <<model.val>> \o rest
             ELSE IF withStrings /\ model.kind = "str" THEN <<model.val>> \o rest
             ELSE rest

Listed(names) == [raised |-> FALSE, names |-> names]
ListRaised == [raised |-> TRUE, names |-> <<>>]

\* The extraction part of list_models, applied to the fetched document
extract_model_names(models_data) ==
    IF ~Truthy(models_data) THEN Listed(<<>>)
    ELSE IF ContainsRaises(models_data) THEN ListRaised
    ELSE IF Contains(models_data, "data")
         THEN IF SubscriptRaises(models_data) THEN ListRaised
              ELSE IF models_data.data.isList
                   THEN Listed(ExtractIds(models_data.data.items, FALSE))
                   ELSE IF models_data.models.present /\ models_data.models.isList
                        THEN Listed(ExtractIds(models_data.models.items, TRUE))
                        ELSE Listed(<<>>)
    ELSE IF Contains(models_data, "models")
         THEN IF SubscriptRaises(models_data) THEN ListRaised
              ELSE IF models_data.models.isList
                   THEN Listed(ExtractIds(models_data.models.items, TRUE))
                   ELSE Listed(<<>>)
    ELSE IF models_data.kind = "list"
         THEN Listed(ExtractIds(models_data.items, TRUE))
         ELSE Listed(<<>>)

list_models(base_url, net) ==
    LET fetched == fetch_models(base_url, net)
    IN  IF fetched.raised THEN ListRaised ELSE extract_model_names(fetched.doc)

----------------------------------------------------------------------------
(* cci/config.py: the document *)

Tiers == {"haiku", "sonnet", "opus"}

\* f with key k bound to v (dict item assignment)
Put(f, k, v) == [x \in DOMAIN f \cup {k} |-> IF x = k THEN v ELSE f[x]]

\* f without the keys in ks (del)
Drop(f, ks) == [x \in DOMAIN f \ ks |-> f[x]]

EmptyDict == [x \in {} |-> x]

\* The default document of _load_config
DefaultConfig ==
    [providers |-> EmptyDict,
     models |-> [t \in Tiers |-> NoModel],
     configs |-> EmptyDict,
     default_config |-> None]

\* A saved configuration.  aliased says that its models dict is the very
\* object self.config['models'] (no copy was made), so that a later
\* assignment to a tier of the scratch selection shows in it.
SavedConfig(provider, models, aliased) ==
    [provider |-> provider, models |-> models, aliased |-> aliased]

\* json.dump(self.config): the document as written to the file; object
\* identity is not part of it.
Serialize(c) ==
    [providers |-> c.providers,
     models |-> c.models,
     configs |-> [k \in DOMAIN c.configs |->
                    [provider |-> c.configs[k].provider, models |-> c.configs[k].models]],
     default_config |-> c.default_config]

\* Result of a store operation: the document afterwards, the value
\* returned ("True", "False", "None") and whether save_config ran.
Result(c, ret, wrote) == [config |-> c, ret |-> ret, wrote |-> wrote]

----------------------------------------------------------------------------
(* cci/config.py: the operations, as functions of the document *)

\* get_configs_for_provider without the comparison of the provider field
get_configs_for_provider_none(c, provider_name) == {}

get_configs_for_provider_all(c, provider_name) ==
    DOMAIN c.configs

get_configs_for_provider(c, provider_name) ==
    {k \in DOMAIN c.configs : c.configs[k].provider = provider_name}

\* set_default_if_just_one_config without its save_config
set_default_if_just_one_config_nosave(c) ==
    IF Cardinality(DOMAIN c.configs) = 1
    THEN LET only_config_name == CHOOSE k \in DOMAIN c.configs : TRUE
         IN  Result([c EXCEPT !.default_config = only_config_name], "None", FALSE)
    ELSE Result(c, "None", FALSE)

set_default_if_just_one_config(c) ==
    IF Cardinality(DOMAIN c.configs) = 1
    THEN LET only_config_name == CHOOSE k \in DOMAIN c.configs : TRUE
         IN  Result([c EXCEPT !.default_config = only_config_name], "None", TRUE)
    ELSE Result(c, "None", FALSE)

\* add_provider that assigns the entry before list_models has returned
add_provider_dirty(c, name, base_url, api_key, api_key_type, fetched, listed) ==
    LET entry(model_list) == [base_url |-> base_url, models |-> model_list,
                              api_key |-> api_key, api_key_type |-> api_key_type]
    IN  IF fetched.raised THEN [config |-> c, ret |-> "False", wrote |-> FALSE]
        ELSE IF Truthy(fetched.doc) /\ listed.raised
             THEN [config |-> [c EXCEPT !.providers = Put(c.providers, name, entry(<<>>))],
                   ret |-> "False", wrote |-> FALSE]
        ELSE [config |-> [c EXCEPT !.providers =
                            Put(c.providers, name,
                                entry(IF Truthy(fetched.doc) THEN listed.names ELSE <<>>))],
              ret |-> "True", wrote |-> TRUE]

\* fetched is what fetch_models(base_url) gives, listed what the following
\* list_models(base_url) gives if it is called.
add_provider(c, name, base_url, api_key, api_key_type, fetched, listed) ==
    IF fetched.raised THEN Result(c, "False", FALSE)
    ELSE IF Truthy(fetched.doc) /\ listed.raised THEN Result(c, "False", FALSE)
    ELSE LET model_list == IF Truthy(fetched.doc) THEN listed.names ELSE <<>>
             entry == [base_url |-> base_url, models |-> model_list,
                       api_key |-> api_key, api_key_type |-> api_key_type]
         IN  Result([c EXCEPT !.providers = Put(c.providers, name, entry)], "True", TRUE)

\* remove_provider without the reset of default_config in the loop
remove_provider_noreset(c, name) ==
    IF name \in DOMAIN c.providers
    THEN LET removed == [c EXCEPT !.configs = Drop(c.configs, get_configs_for_provider(c, name)),
                                  !.providers = Drop(c.providers, {name})]
         IN  Result(set_default_if_just_one_config(removed).config, "None", TRUE)
    ELSE Result(c, "None", FALSE)

remove_provider(c, name) ==
    IF name \in DOMAIN c.providers
    THEN LET configs_to_remove == get_configs_for_provider(c, name)
             reset == IF c.default_config \in configs_to_remove
                      THEN None ELSE c.default_config
             removed == [c EXCEPT !.configs = Drop(c.configs, configs_to_remove),
                                  !.default_config = reset,
                                  !.providers = Drop(c.providers, {name})]
         IN  Result(set_default_if_just_one_config(removed).config, "None", TRUE)
    ELSE Result(c, "None", FALSE)

\* remove_config without the reset of default_config
remove_config_noreset(c, name) ==
    IF name \in DOMAIN c.configs
    THEN Result([c EXCEPT !.configs = Drop(c.configs, {name})], "True", TRUE)
    ELSE Result(c, "False", FALSE)

remove_config(c, name) ==
    IF name \in DOMAIN c.configs
    THEN Result([c EXCEPT !.configs = Drop(c.configs, {name}),
                          !.default_config = IF c.default_config = name
                                             THEN None ELSE c.default_config],
                "True", TRUE)
    ELSE Result(c, "False", FALSE)

\* check_and_update_default_config without the assignment of None
check_and_update_default_config_noreset(c) ==
    IF c.default_config # None /\ c.default_config \notin DOMAIN c.configs
    THEN Result(c, "False", TRUE)
    ELSE Result(c, IF c.default_config # None THEN "True" ELSE "False", FALSE)

check_and_update_default_config(c) ==
    IF c.default_config # None /\ c.default_config \notin DOMAIN c.configs
    THEN Result([c EXCEPT !.default_config = None], "False", TRUE)
    ELSE Result(c, IF c.default_config # None THEN "True" ELSE "False", FALSE)

\* listed is what list_models(base_url) gives
\* update_provider that stores the list in every provider
update_provider_keep(c, name, listed) ==
    IF name \notin DOMAIN c.providers THEN Result(c, "False", FALSE)
    ELSE IF listed.raised \/ listed.names = <<>> THEN Result(c, "False", FALSE)
    ELSE Result([c EXCEPT !.providers[name].models = listed.names], "True", TRUE)

update_provider_all(c, name, listed) ==
    IF name \notin DOMAIN c.providers THEN Result(c, "False", FALSE)
    ELSE IF listed.raised THEN Result(c, "False", FALSE)
    ELSE Result([c EXCEPT !.providers =
                     [p \in DOMAIN @ |-> [@[p] EXCEPT !.models = listed.names]]],
                "True", TRUE)

update_provider(c, name, listed) ==
    IF name \notin DOMAIN c.providers THEN Result(c, "False", FALSE)
    ELSE IF listed.raised THEN Result(c, "False", FALSE)
    ELSE Result([c EXCEPT !.providers[name].models = listed.names], "True", TRUE)

\* set_model without the check of model_type
set_model_unchecked(c, model_type, model_name) ==
    Result([c EXCEPT !.models = Put(c.models, model_type, model_name)], "True", TRUE)

set_model(c, model_type, model_name) ==
    IF model_type \notin {"haiku", "sonnet", "opus"} THEN Result(c, "False", FALSE)
    ELSE Result([c EXCEPT
                   !.models[model_type] = model_name,
                   !.configs = [k \in DOMAIN c.configs |->
                                  IF c.configs[k].aliased
                                  THEN [c.configs[k] EXCEPT !.models[model_type] = model_name]
                                  ELSE c.configs[k]]],
                "True", TRUE)

\* save_config_as without .copy()
save_config_as_nocopy(c, name, provider_name) ==
    LET normalized_name == normalize_config_name(name)
    IN  Result([c EXCEPT !.configs = Put(c.configs, normalized_name,
                                         SavedConfig(provider_name, c.models, TRUE))],
               "None", TRUE)

save_config_as(c, name, provider_name) ==
    LET normalized_name == normalize_config_name(name)
    IN  Result([c EXCEPT !.configs = Put(c.configs, normalized_name,
                                         SavedConfig(provider_name, c.models, FALSE))],
               "None", TRUE)

\* The value load_config_by_name returns: {} (empty) or the resolved configuration
EmptyLoaded ==
    [empty |-> TRUE, base_url |-> NoUrl, models |-> [t \in Tiers |-> NoModel],
     api_key |-> "", api_key_type |-> "none"]

\* load_config_by_name that returns self.config['models']
load_config_by_name_normalized(c, name) ==
    LET key == normalize_config_name(name)
    IN  IF key \notin DOMAIN c.configs THEN EmptyLoaded
        ELSE LET provider == c.configs[key].provider
             IN  IF provider \notin DOMAIN c.providers THEN EmptyLoaded
                 ELSE [empty |-> FALSE,
                       base_url |-> c.providers[provider].base_url,
                       models |-> c.configs[key].models,
                       api_key |-> c.providers[provider].api_key,
                       api_key_type |-> c.providers[provider].api_key_type]

load_config_by_name_scratch(c, name) ==
    IF name \notin DOMAIN c.configs THEN EmptyLoaded
    ELSE LET provider == c.configs[name].provider
         IN  IF provider \notin DOMAIN c.providers THEN EmptyLoaded
             ELSE [empty |-> FALSE,
                   base_url |-> c.providers[provider].base_url,
                   models |-> c.models,
                   api_key |-> c.providers[provider].api_key,
                   api_key_type |-> c.providers[provider].api_key_type]

load_config_by_name(c, name) ==
    IF name \notin DOMAIN c.configs THEN EmptyLoaded
    ELSE LET provider == c.configs[name].provider
         IN  IF provider \notin DOMAIN c.providers THEN EmptyLoaded
             ELSE LET provider_config == c.providers[provider]
                  IN  [empty |-> FALSE,
                       base_url |-> provider_config.base_url,
                       models |-> c.configs[name].models,
                       api_key |-> provider_config.api_key,
                       api_key_type |-> provider_config.api_key_type]

set_default_config(c, name) ==
    Result([c EXCEPT !.default_config = name], "None", TRUE)

----------------------------------------------------------------------------
(* Inputs *)

ProviderNames == {"acme", "beta"}

NoKeyArgs ==
    [base_url |-> <<"http://x", "/", "v1">>, api_key |-> "", api_key_type |-> "none"]

DirectKeyArgs ==
    [base_url |-> <<"http://y">>, api_key |-> "sk-1", api_key_type |-> "direct"]

ProviderArgs == {NoKeyArgs, DirectKeyArgs}

OpenAIDoc == DictDoc(ListField(<<IdItem("m1"), IdItem("m2")>>), NoField, FALSE)
EmptyDictDoc == DictDoc(NoField, NoField, FALSE)

StoreDocs == {OpenAIDoc, EmptyDictDoc}

\* What fetch_models / list_models can give for the documents in docs
FetchOutcomes(base_urls, docs) ==
    {fetch_models(u, net) : u \in base_urls, net \in Nets(docs)}

ListOutcomes(base_urls, docs) ==
    {list_models(u, net) : u \in base_urls, net \in Nets(docs)}

\* Input sets of a specification: raw configuration names for
\* save_config_as, names for load_config_by_name / remove_config /
\* set_default_config, provider names, provider settings, tier arguments,
\* model ids, and the outcomes of fetch_models and list_models when the
\* remote side answers with the documents in docs.
Inputs(names, lookups, providers, pargs, docs, tiers, values) ==
    [names |-> names, lookups |-> lookups, providers |-> providers, pargs |-> pargs,
     tiers |-> tiers, values |-> values,
     fetched |-> FetchOutcomes({a.base_url : a \in pargs}, docs),
     listed |-> ListOutcomes({a.base_url : a \in pargs}, docs)]

\* Spec: two providers, three keys ("a", "b" and the empty key), names
\* that are not normalized; the scratch selection stays as constructed.
StoreNames == {<<"a">>, <<"b">>, <<"A">>, <<"_">>}

StoreInputs ==
    Inputs(StoreNames, StoreNames, ProviderNames, {NoKeyArgs}, {OpenAIDoc},
           {"haiku", "turbo"}, {NoModel})

\* SpecProviders: two providers that are re-added with other settings,
\* one key, a scratch selection that moves away from the saved one.
ProvidersInputs ==
    Inputs({<<"a">>, <<"A">>}, {<<"a">>, <<"A">>}, ProviderNames, ProviderArgs, {OpenAIDoc},
           {"haiku", "turbo"}, {NoModel, "m1"})

\* SpecModels: every tier and an unknown one, one provider, two keys.
ModelsInputs ==
    Inputs({<<"a">>, <<"A">>, <<"b">>}, {<<"a">>, <<"A">>}, {"acme"}, {NoKeyArgs}, {},
           Tiers \cup {"turbo"}, {NoModel, "m1"})

\* SpecNames: raw names of upper-case letters and underscores up to
\* MaxRichLen, and some with other separators and invalid characters.
ExtraNames ==
    {<<"!", "A">>, <<"A", " ", "A">>, <<"-", "A", "-">>, <<"A", "_", "!", "_", "A">>,
     <<"A", "-", "-", "A">>}

NamesInputs ==
    Inputs(SeqsUpTo({"A", "_"}, MaxRichLen) \cup ExtraNames, {<<"a">>}, {"acme"},
           {NoKeyArgs}, {}, {"haiku"}, {NoModel})

----------------------------------------------------------------------------
(* cci/config.py: get_environment_variables.  environ is os.environ, a
   function from the names of the variables that are set to their values. *)

EnvNames ==
    {"ANTHROPIC_DEFAULT_HAIKU_MODEL", "ANTHROPIC_DEFAULT_SONNET_MODEL",
     "ANTHROPIC_DEFAULT_OPUS_MODEL", "ANTHROPIC_BASE_URL", "ANTHROPIC_API_KEY",
     "ANTHROPIC_AUTH_TOKEN"}

\* os.environ.get(key, '')
EnvironGet(environ, key) == IF key \in DOMAIN environ THEN environ[key] ELSE ""

EnvReturned(env) == [raised |-> FALSE, env |-> env]

\* KeyError from config['models'] on the empty dictionary
EnvRaised == [raised |-> TRUE, env |-> [n \in {} |-> ""]]

\* get_environment_variables that emits the stored value for every type
get_environment_variables_stored(cfg, environ) ==
    IF cfg.empty THEN EnvRaised
    ELSE EnvReturned(
             [ANTHROPIC_DEFAULT_HAIKU_MODEL  |-> <<"model", cfg.models["haiku"]>>,
              ANTHROPIC_DEFAULT_SONNET_MODEL |-> <<"model", cfg.models["sonnet"]>>,
              ANTHROPIC_DEFAULT_OPUS_MODEL   |-> <<"model", cfg.models["opus"]>>,
              ANTHROPIC_BASE_URL             |-> cfg.base_url,
              ANTHROPIC_API_KEY              |-> <<"str", cfg.api_key>>,
              ANTHROPIC_AUTH_TOKEN           |-> <<"str", "">>])

\* The values are tagged: a tier entry is a model id or None, the two key
\* entries are strings, the base URL is a URL.
get_environment_variables(cfg, environ) ==
    IF cfg.empty THEN EnvRaised
    ELSE LET api_key_type == cfg.api_key_type
             api_key_value == cfg.api_key
             api_key == IF api_key_type = "direct" THEN api_key_value
                        ELSE IF api_key_type = "envvar"
                             THEN EnvironGet(environ, api_key_value)
                             ELSE ""
         IN  EnvReturned(
                 [ANTHROPIC_DEFAULT_HAIKU_MODEL  |-> <<"model", cfg.models["haiku"]>>,
                  ANTHROPIC_DEFAULT_SONNET_MODEL |-> <<"model", cfg.models["sonnet"]>>,
                  ANTHROPIC_DEFAULT_OPUS_MODEL   |-> <<"model", cfg.models["opus"]>>,
                  ANTHROPIC_BASE_URL             |-> cfg.base_url,
                  ANTHROPIC_API_KEY              |-> <<"str", api_key>>,
                  ANTHROPIC_AUTH_TOKEN           |-> <<"str", "">>])

----------------------------------------------------------------------------
(* cci/tui.py: the flows of the editor.  A flow returns the document, whether
   a save_config ran, how it ended (the last message printed, or "exit 1"),
   whether the user was asked for a new default and the model count it
   printed. *)

Flow(c, wrote, ret, asked, count) ==
    [config |-> c, wrote |-> wrote, ret |-> ret, asked |-> asked, count |-> count]

\* fetch_models(base_url, actual_api_key): models_fetch.fetch_models takes
\* one positional argument, so the call raises TypeError
tui_fetch_models(base_url, actual_api_key, net) == Raised

\* list_models(base_url, actual_api_key), likewise
tui_list_models(base_url, actual_api_key, net) == ListRaised

\* fetched, listed: what the two calls inside add_provider get
_add_provider(c, name, base_url, api_key, api_key_type, environ, net, fetched, listed) ==
    IF name = "" THEN Flow(c, FALSE, "Provider name cannot be empty.", FALSE, 0)
    ELSE IF base_url = <<>> THEN Flow(c, FALSE, "Base URL cannot be empty.", FALSE, 0)
    ELSE LET actual_api_key == IF api_key_type = "direct" THEN api_key
                               ELSE IF api_key_type = "envvar"
                                    THEN EnvironGet(environ, api_key)
                                    ELSE ""
             models_data == tui_fetch_models(base_url, actual_api_key, net)
             model_list == IF Truthy(models_data.doc)
                           THEN tui_list_models(base_url, actual_api_key, net)
                           ELSE Listed(<<>>)
         IN  IF models_data.raised \/ model_list.raised
             THEN Flow(c, FALSE, "Error adding provider", FALSE, 0)
             ELSE IF model_list.names = <<>>
             THEN Flow(c, FALSE, "No models found, not saving provider", FALSE, 0)
             ELSE LET success == add_provider(c, name, base_url, api_key, api_key_type,
                                              fetched, listed)
                  IN  IF success.ret = "True"
                      THEN Flow(success.config, success.wrote, "added successfully", FALSE,
                                Len(model_list.names))
                      ELSE Flow(success.config, success.wrote, "Failed to add provider.",
                                FALSE, 0)

\* selected: what the user picks in select_config
_set_default_config(c, selected) ==
    IF c.configs = EmptyDict
    THEN Flow(c, FALSE, "No configurations saved.", FALSE, 0)
    ELSE Flow(set_default_config(c, selected).config, TRUE, "set as default", TRUE, 0)

_check_and_prompt_for_new_default(c, selected) ==
    IF c.configs # EmptyDict
    THEN IF Cardinality(DOMAIN c.configs) = 1
         THEN LET config_name == CHOOSE k \in DOMAIN c.configs : TRUE
              IN  Flow(set_default_config(c, config_name).config, TRUE,
                       "automatically set as default", FALSE, 0)
         ELSE _set_default_config(c, selected)
    ELSE Flow(c, FALSE, "exit 1", FALSE, 0)

\* Python truthiness of self.config.get('default_config')
TruthyName(name) == name # None /\ name # <<>>

IsQ_exact(choice) == choice = "q"

\* choice.lower() == 'q' on a provider name
IsQ(choice) == choice \in {"q", "Q"}

_delete_provider(c, choice, confirm_configs, confirm, selected) ==
    IF c.providers = EmptyDict THEN Flow(c, FALSE, "No providers configured.", FALSE, 0)
    ELSE IF IsQ(choice) THEN Flow(c, FALSE, "cancel", FALSE, 0)
    ELSE LET provider_name == choice
             associated_configs == get_configs_for_provider(c, provider_name)
         IN  IF associated_configs # {} /\ ~confirm_configs
             THEN Flow(c, FALSE, "Deletion cancelled.", FALSE, 0)
             ELSE IF confirm
             THEN LET default_config == c.default_config
                      default_config_will_be_deleted ==
                          TruthyName(default_config) /\ default_config \in associated_configs
                      removed == remove_provider(c, provider_name)
                  IN  IF default_config_will_be_deleted
                      THEN LET prompted == _check_and_prompt_for_new_default(removed.config,
                                                                              selected)
                           IN  Flow(prompted.config, TRUE, prompted.ret, prompted.asked, 0)
                      ELSE Flow(removed.config, removed.wrote, "deleted", FALSE, 0)
             ELSE Flow(c, FALSE, "Deletion cancelled.", FALSE, 0)

_delete_config(c, config_name, confirm, selected) ==
    IF c.configs = EmptyDict THEN Flow(c, FALSE, "No configurations saved.", FALSE, 0)
    ELSE IF Lower(config_name) = <<"q">> THEN Flow(c, FALSE, "cancel", FALSE, 0)
    ELSE LET is_default == config_name = c.default_config
         IN  IF confirm
             THEN LET success == remove_config(c, config_name)
                  IN  IF success.ret = "True"
                      THEN IF is_default
                           THEN LET prompted ==
                                        _check_and_prompt_for_new_default(success.config,
                                                                          selected)
                                IN  Flow(prompted.config, TRUE, prompted.ret,
                                         prompted.asked, 0)
                           ELSE Flow(success.config, success.wrote, "deleted", FALSE, 0)
                      ELSE Flow(c, FALSE, "Failed to delete configuration", FALSE, 0)
             ELSE Flow(c, FALSE, "Deletion cancelled.", FALSE, 0)

----------------------------------------------------------------------------
(* cci/__main__.py: load_configuration.  cci_args is the list of the
   --cci- arguments; the result says how the call ended ("exit 1" or
   "returned") and, when it returned, whether env_vars is the empty
   dictionary. *)

\* The names cci/config.py defines at module level
ConfigModuleNames == {"ConfigManager", "get_config_manager"}

\* The methods of ConfigManager
ConfigManagerMethods ==
    {"add_provider", "remove_provider", "remove_config", "check_and_update_default_config",
     "update_provider", "get_configs_for_provider", "set_model", "get_models",
     "get_available_models", "save_config_as", "load_config_by_name",
     "get_default_config_name", "set_default_config", "set_default_if_just_one_config",
     "get_environment_variables", "save_config"}

MainResult(ret, empty) == [ret |-> ret, empty |-> empty]

\* The name after --cci-use-config, None when the flag is last or absent
UseConfigName(cci_args) ==
    IF \E i \in 1..(Len(cci_args) - 1) : cci_args[i] = <<"--cci-use-config">>
    THEN cci_args[(CHOOSE i \in 1..(Len(cci_args) - 1) :
                      /\ cci_args[i] = <<"--cci-use-config">>
                      /\ \A j \in 1..(i - 1) : cci_args[j] # <<"--cci-use-config">>) + 1]
    ELSE None

\* Every exception below is an Exception and ends in `except Exception: pass`,
\* after which the initial env_vars = {} is returned; there is no sys.exit.
load_configuration(c, cci_args) ==
    IF ~({"apply_configuration", "get_config_manager"} \subseteq ConfigModuleNames)
    THEN MainResult("returned", TRUE)                         \* ImportError
    ELSE LET config_name == UseConfigName(cci_args)
             found == /\ config_name # None /\ config_name # <<>>
                      /\ ~load_config_by_name(c, config_name).empty
         IN  IF ~found /\ "load_default_config" \notin ConfigManagerMethods
             THEN MainResult("returned", TRUE)                \* AttributeError
             ELSE MainResult("returned", TRUE)                \* get_environment_variables(None)

----------------------------------------------------------------------------
(* State: config is self.config, file the content of config.json, pre the
   document and file before the last operation, last the last operation,
   peer the self.config of a second ConfigManager on the same file. *)

FileAbsent == [state |-> "absent", doc |-> Serialize(DefaultConfig)]
FileCorrupt == [state |-> "corrupt", doc |-> Serialize(DefaultConfig)]
FileOf(c) == [state |-> "json", doc |-> Serialize(c)]

NoArg == [none |-> TRUE]

\* open() fails with an OSError (permissions, a directory in its place)
FileUnreadable == [state |-> "unreadable", doc |-> Serialize(DefaultConfig)]

\* bytes that are not text in the locale's encoding
FileUndecodable == [state |-> "undecodable", doc |-> Serialize(DefaultConfig)]

\* json.load of a document written by save_config
Deserialize(doc) ==
    [providers |-> doc.providers,
     models |-> doc.models,
     configs |-> [k \in DOMAIN doc.configs |->
                    SavedConfig(doc.configs[k].provider, doc.configs[k].models, FALSE)],
     default_config |-> doc.default_config]

Loaded(c) == [raised |-> FALSE, config |-> c]

\* contextlib.suppress(json.JSONDecodeError, IOError) lets the
\* UnicodeDecodeError of the text layer pass
LoadRaised == [raised |-> TRUE, config |-> DefaultConfig]

_load_config(f) ==
    CASE f.state = "absent" -> Loaded(DefaultConfig)
      [] f.state = "unreadable" -> Loaded(DefaultConfig)
      [] f.state = "corrupt" -> Loaded(DefaultConfig)
      [] f.state = "undecodable" -> LoadRaised
      [] OTHER -> Loaded(Deserialize(f.doc))

Init ==
    /\ file \in {FileAbsent, FileCorrupt}
    /\ config = _load_config(file).config
    /\ peer = _load_config(file).config
    /\ pre = [config |-> DefaultConfig, file |-> file]
    /\ last = [op |-> "init", arg |-> NoArg, ret |-> "None", loaded |-> EmptyLoaded]

\* One call of a store operation with result res
Step(op, arg, res, loaded) ==
    /\ config' = res.config
    /\ file' = IF res.wrote THEN FileOf(res.config) ELSE file
    /\ pre' = [config |-> config, file |-> file]
    /\ last' = [op |-> op, arg |-> arg, ret |-> res.ret, loaded |-> loaded]
    /\ UNCHANGED peer

AddProvider(D) ==
    \E name \in D.providers, a \in D.pargs :
        \E fetched \in D.fetched :
            \E listed \in IF ~fetched.raised /\ Truthy(fetched.doc)
                          THEN D.listed ELSE {Listed(<<>>)} :
                Step("add_provider",
                     [name |-> name, base_url |-> a.base_url, api_key |-> a.api_key,
                      api_key_type |-> a.api_key_type, fetched |-> fetched, listed |-> listed],
                     add_provider(config, name, a.base_url, a.api_key, a.api_key_type,
                                  fetched, listed),
                     EmptyLoaded)

RemoveProvider(D) ==
    \E name \in D.providers :
        Step("remove_provider", [name |-> name], remove_provider(config, name), EmptyLoaded)

UpdateProvider(D) ==
    \E name \in D.providers :
        \E listed \in IF name \in DOMAIN config.providers
                      THEN D.listed ELSE {Listed(<<>>)} :
            Step("update_provider", [name |-> name, listed |-> listed],
                 update_provider(config, name, listed), EmptyLoaded)

SetModel(D) ==
    \E model_type \in D.tiers, model_name \in D.values :
        Step("set_model", [model_type |-> model_type, model_name |-> model_name],
             set_model(config, model_type, model_name), EmptyLoaded)

SaveConfigAs(D) ==
    \E name \in D.names, provider_name \in D.providers :
        /\ Cardinality(DOMAIN config.configs \cup {normalize_config_name(name)}) <= MaxConfigs
        /\ Step("save_config_as", [name |-> name, provider_name |-> provider_name],
                save_config_as(config, name, provider_name), EmptyLoaded)

LoadConfigByName(D) ==
    \E name \in D.lookups :
        Step("load_config_by_name", [name |-> name], Result(config, "dict", FALSE),
             load_config_by_name(config, name))

RemoveConfig(D) ==
    \E name \in D.lookups :
        Step("remove_config", [name |-> name], remove_config(config, name), EmptyLoaded)

SetDefaultConfig(D) ==
    \E name \in D.lookups :
        Step("set_default_config", [name |-> name], set_default_config(config, name),
             EmptyLoaded)

SetDefaultIfJustOneConfig ==
    Step("set_default_if_just_one_config", NoArg, set_default_if_just_one_config(config),
         EmptyLoaded)

CheckAndUpdateDefaultConfig ==
    Step("check_and_update_default_config", NoArg, check_and_update_default_config(config),
         EmptyLoaded)

StoreNext(D) ==
    \/ AddProvider(D)
    \/ RemoveProvider(D)
    \/ UpdateProvider(D)
    \/ SetModel(D)
    \/ SaveConfigAs(D)
    \/ LoadConfigByName(D)
    \/ RemoveConfig(D)
    \/ SetDefaultConfig(D)
    \/ SetDefaultIfJustOneConfig
    \/ CheckAndUpdateDefaultConfig

Next == StoreNext(StoreInputs)

Spec == Init /\ [][Next]_vars

NextProviders == StoreNext(ProvidersInputs)

SpecProviders == Init /\ [][NextProviders]_vars

NextModels == StoreNext(ModelsInputs)

SpecModels == Init /\ [][NextModels]_vars

NextNames == StoreNext(NamesInputs)

SpecNames == Init /\ [][NextNames]_vars

----------------------------------------------------------------------------
(* The store behind a caller that validates the name first, as
   ConfigTUI._set_default_config does: its selection list holds the keys of
   configs only, so set_default_config receives a key of configs. *)

SetDefaultConfigValidated(D) ==
    \E name \in D.lookups :
        /\ name \in DOMAIN config.configs
        /\ Step("set_default_config", [name |-> name], set_default_config(config, name),
                EmptyLoaded)

NextValidated ==
    \/ AddProvider(StoreInputs)
    \/ RemoveProvider(StoreInputs)
    \/ UpdateProvider(StoreInputs)
    \/ SetModel(StoreInputs)
    \/ SaveConfigAs(StoreInputs)
    \/ LoadConfigByName(StoreInputs)
    \/ RemoveConfig(StoreInputs)
    \/ SetDefaultConfigValidated(StoreInputs)
    \/ SetDefaultIfJustOneConfig
    \/ CheckAndUpdateDefaultConfig

SpecValidated == Init /\ [][NextValidated]_vars

----------------------------------------------------------------------------
(* The store behind a caller that saves configurations for stored providers
   only, as ConfigTUI._create_config does: the provider is selected from
   list(providers.keys()). *)

SaveConfigAsReferenced(D) ==
    \E name \in D.names, provider_name \in D.providers :
        /\ provider_name \in DOMAIN config.providers
        /\ Cardinality(DOMAIN config.configs \cup {normalize_config_name(name)}) <= MaxConfigs
        /\ Step("save_config_as", [name |-> name, provider_name |-> provider_name],
                save_config_as(config, name, provider_name), EmptyLoaded)

NextReferenced ==
    \/ AddProvider(StoreInputs)
    \/ UpdateProvider(StoreInputs)
    \/ RemoveProvider(StoreInputs)
    \/ SetModel(StoreInputs)
    \/ RemoveConfig(StoreInputs)
    \/ SaveConfigAsReferenced(StoreInputs)
    \/ LoadConfigByName(StoreInputs)

SpecReferenced == Init /\ [][NextReferenced]_vars

----------------------------------------------------------------------------
(* Construction: Init is the file before ConfigManager() runs, Construct is
   __init__, the store operations need the instance it returned. *)

StoredDocument ==
    [providers |-> Put(EmptyDict, "acme",
                       [base_url |-> NoKeyArgs.base_url, api_key |-> NoKeyArgs.api_key,
                        api_key_type |-> NoKeyArgs.api_key_type, models |-> <<"m1", "m2">>]),
     models |-> [t \in Tiers |-> NoModel],
     configs |-> Put(EmptyDict, <<"a">>,
                     SavedConfig("acme", [t \in Tiers |-> NoModel], FALSE)),
     default_config |-> <<"a">>]

DiskFiles ==
    {FileAbsent, FileUnreadable, FileCorrupt, FileUndecodable, FileOf(DefaultConfig),
     FileOf(StoredDocument)}

InitLoad ==
    /\ file \in DiskFiles
    /\ config = DefaultConfig
    /\ peer = DefaultConfig
    /\ pre = [config |-> DefaultConfig, file |-> file]
    /\ last = [op |-> "start", arg |-> NoArg, ret |-> "None", loaded |-> EmptyLoaded]

Construct ==
    /\ last.op = "start"
    /\ LET loaded == _load_config(file)
       IN  /\ config' = loaded.config
           /\ last' = [op |-> "__init__", arg |-> NoArg,
                       ret |-> IF loaded.raised THEN "raised" ELSE "None",
                       loaded |-> EmptyLoaded]
    /\ pre' = [config |-> config, file |-> file]
    /\ UNCHANGED <<file, peer>>

Constructed == last.op # "start" /\ last.ret # "raised"

LoadInputs ==
    Inputs({<<"a">>, <<"b">>}, {<<"a">>}, {"acme"}, {NoKeyArgs}, {OpenAIDoc},
           {"haiku", "turbo"}, {NoModel, "m1"})

NextLoad ==
    \/ Construct
    \/ Constructed /\ StoreNext(LoadInputs)

SpecLoad == InitLoad /\ [][NextLoad]_vars

----------------------------------------------------------------------------
(* Two ConfigManager instances, A (config) and B (peer), constructed on the
   same config.json.  pre.config is the document of the instance that
   performed the last operation, pre.other the document of the other one. *)

Instances == {"A", "B"}

InstanceDocument_reread(own, f) == _load_config(f).config

\* self.config, assigned from the file in __init__ and nowhere else
InstanceDocument(own, f) == own

DocumentOf(who) == InstanceDocument(IF who = "A" THEN config ELSE peer, file)

InstanceStep(who, op, arg, res) ==
    /\ config' = IF who = "A" THEN res.config ELSE config
    /\ peer' = IF who = "B" THEN res.config ELSE peer
    /\ file' = IF res.wrote THEN FileOf(res.config) ELSE file
    /\ pre' = [config |-> IF who = "A" THEN config ELSE peer, file |-> file,
               other |-> IF who = "A" THEN peer ELSE config]
    /\ last' = [op |-> op, arg |-> arg, ret |-> res.ret, loaded |-> EmptyLoaded,
                instance |-> who, wrote |-> res.wrote]

InstanceNames == {<<"a">>, <<"b">>}

InitInstances ==
    /\ file \in {FileAbsent, FileOf(StoredDocument)}
    /\ config = _load_config(file).config
    /\ peer = _load_config(file).config
    /\ pre = [config |-> DefaultConfig, file |-> file]
    /\ last = [op |-> "init", arg |-> NoArg, ret |-> "None", loaded |-> EmptyLoaded]

SaveConfigAsBy(who) ==
    \E name \in InstanceNames, provider_name \in {"acme"} :
        /\ Cardinality(DOMAIN DocumentOf(who).configs \cup {normalize_config_name(name)})
               <= MaxConfigs
        /\ InstanceStep(who, "save_config_as",
                        [name |-> name, provider_name |-> provider_name],
                        save_config_as(DocumentOf(who), name, provider_name))

RemoveConfigBy(who) ==
    \E name \in InstanceNames :
        InstanceStep(who, "remove_config", [name |-> name],
                     remove_config(DocumentOf(who), name))

SetDefaultConfigBy(who) ==
    \E name \in InstanceNames :
        InstanceStep(who, "set_default_config", [name |-> name],
                     set_default_config(DocumentOf(who), name))

RemoveProviderBy(who) ==
    \E name \in {"acme"} :
        InstanceStep(who, "remove_provider", [name |-> name],
                     remove_provider(DocumentOf(who), name))

NextInstances ==
    \E who \in Instances :
        \/ SaveConfigAsBy(who)
        \/ RemoveConfigBy(who)
        \/ SetDefaultConfigBy(who)
        \/ RemoveProviderBy(who)

SpecInstances == InitInstances /\ [][NextInstances]_vars

----------------------------------------------------------------------------
(* The editor on a store that other callers of ConfigManager use as well.
   After sys.exit(1) nothing runs. *)

FlowStep(op, arg, res) ==
    /\ config' = res.config
    /\ file' = IF res.wrote THEN FileOf(res.config) ELSE file
    /\ pre' = [config |-> config, file |-> file]
    /\ last' = [op |-> op, arg |-> arg, ret |-> res.ret, loaded |-> EmptyLoaded,
                asked |-> res.asked, count |-> res.count]
    /\ UNCHANGED peer

\* The user picks an existing configuration when asked, nothing otherwise
Picks(res, selected) ==
    IF res.asked THEN selected \in DOMAIN res.config.configs ELSE selected = None

\* What the remote side answers while the flow validates the provider
ValidationNets ==
    {net \in Nets({OpenAIDoc}) :
        /\ net.probes[2] = "error"
        /\ net.get.kind \in {"json", "error"}
        /\ net.jsonErrIsRequestException}

AddProviderFlow(D) ==
    \E name \in D.providers \cup {""}, a \in D.pargs, net \in ValidationNets :
        \E fetched \in D.fetched :
            \E listed \in IF ~fetched.raised /\ Truthy(fetched.doc)
                          THEN D.listed ELSE {Listed(<<>>)} :
                FlowStep("_add_provider",
                         [name |-> name, base_url |-> a.base_url, net |-> net],
                         _add_provider(config, name, a.base_url, a.api_key, a.api_key_type,
                                       [n \in {} |-> ""], net, fetched, listed))

DeleteProviderFlow(D) ==
    \E choice \in D.providers \cup {"q"}, confirm_configs \in BOOLEAN, confirm \in BOOLEAN :
        \E selected \in D.lookups \cup {None} :
            /\ choice \in DOMAIN config.providers \cup {"q"}
            /\ confirm_configs => get_configs_for_provider(config, choice) # {}
            /\ LET res == _delete_provider(config, choice, confirm_configs, confirm, selected)
               IN  /\ Picks(res, selected)
                   /\ FlowStep("_delete_provider",
                               [choice |-> choice, confirm_configs |-> confirm_configs,
                                confirm |-> confirm, selected |-> selected],
                               res)

DeleteConfigFlow(D) ==
    \E config_name \in D.lookups, confirm \in BOOLEAN :
        \E selected \in D.lookups \cup {None} :
            /\ config_name \in DOMAIN config.configs
            /\ LET res == _delete_config(config, config_name, confirm, selected)
               IN  /\ Picks(res, selected)
                   /\ FlowStep("_delete_config",
                               [config_name |-> config_name, confirm |-> confirm,
                                selected |-> selected],
                               res)

SetDefaultConfigFlow(D) ==
    \E selected \in D.lookups \cup {None} :
        LET res == _set_default_config(config, selected)
        IN  /\ Picks(res, selected)
            /\ FlowStep("_set_default_config", [selected |-> selected], res)

EditorInputs ==
    Inputs({<<"a">>, <<"-">>}, {<<>>, <<"a">>}, ProviderNames, {NoKeyArgs},
           {OpenAIDoc}, {"haiku"}, {NoModel})

Running == last.ret # "exit 1"

NextEditor ==
    /\ Running
    /\ \/ AddProviderFlow(EditorInputs)
       \/ DeleteProviderFlow(EditorInputs)
       \/ DeleteConfigFlow(EditorInputs)
       \/ SetDefaultConfigFlow(EditorInputs)
       \/ StoreNext(EditorInputs)

SpecEditor == Init /\ [][NextEditor]_vars

----------------------------------------------------------------------------
(* The delete flows on a store that holds providers named "q" and "Q" and
   a configuration under the key "q". *)

DeleteInputs ==
    Inputs({<<"q">>, <<"a">>}, {<<"q">>, <<"a">>}, {"q", "Q", "acme"}, {NoKeyArgs},
           {OpenAIDoc}, {"haiku"}, {NoModel})

NextDelete ==
    /\ Running
    /\ \/ DeleteProviderFlow(DeleteInputs)
       \/ DeleteConfigFlow(DeleteInputs)
       \/ AddProvider(DeleteInputs)
       \/ SaveConfigAs(DeleteInputs)
       \/ SetDefaultConfig(DeleteInputs)

SpecDelete == Init /\ [][NextDelete]_vars

----------------------------------------------------------------------------
(* The launcher: load_configuration builds its own ConfigManager from the
   file that the store operations have written. *)

CciArgs ==
    {<<>>, << <<"--cci-use-config">> >>} \cup
    {<< <<"--cci-use-config">>, name >> : name \in {<<"a">>, <<"b">>}}

LoadConfiguration ==
    \E cci_args \in CciArgs :
        LET res == load_configuration(_load_config(file).config, cci_args)
        IN  /\ last' = [op |-> "load_configuration", arg |-> [cci_args |-> cci_args],
                        ret |-> res.ret, loaded |-> EmptyLoaded, empty |-> res.empty]
            /\ pre' = [config |-> config, file |-> file]
            /\ UNCHANGED <<config, file, peer>>

NextMain ==
    /\ Running
    /\ \/ LoadConfiguration
       \/ StoreNext(LoadInputs)

SpecMain == Init /\ [][NextMain]_vars

----------------------------------------------------------------------------
(* normalize_config_name on its own: Init draws the raw name, the action
   calls the function on the value it returned last (first on the raw name). *)

RawChars == {"A", "b", "1", " ", "_", "-", "!"}

RawNames == SeqsUpTo(RawChars, MaxNormLen)

PureCall(op, arg, ret) ==
    /\ last' = [op |-> op, arg |-> arg, ret |-> ret, loaded |-> EmptyLoaded]
    /\ UNCHANGED <<config, file, pre, peer>>

InitNormalize ==
    /\ config = DefaultConfig
    /\ peer = DefaultConfig
    /\ file = FileAbsent
    /\ pre = [config |-> DefaultConfig, file |-> FileAbsent]
    /\ \E name \in RawNames :
           last = [op |-> "input", arg |-> [name |-> name], ret |-> name,
                   loaded |-> EmptyLoaded]

NormalizeConfigName ==
    PureCall("normalize_config_name", [name |-> last.ret], normalize_config_name(last.ret))

NextNormalize == NormalizeConfigName

SpecNormalize == InitNormalize /\ [][NextNormalize]_vars

----------------------------------------------------------------------------
(* discover_models_endpoint on its own: Init draws the base URL and the
   outcome each candidate would get, the action runs the discovery. *)

RECURSIVE PathOf(_)
PathOf(segs) ==
    IF segs = <<>> THEN <<>> ELSE <<"/", Head(segs)>> \o PathOf(Tail(segs))

Slashes(k) == [i \in 1..k |-> "/"]

\* scheme://host, plain path segments, trailing slashes
BaseUrls ==
    {<<"http://h">> \o PathOf(segs) \o Slashes(k) :
        segs \in SeqsUpTo({"v1", "api"}, MaxUrlSegs), k \in 0..MaxUrlSlashes}

InitPure(args) ==
    /\ config = DefaultConfig
    /\ peer = DefaultConfig
    /\ file = FileAbsent
    /\ pre = [config |-> DefaultConfig, file |-> FileAbsent]
    /\ \E arg \in args :
           last = [op |-> "input", arg |-> arg, ret |-> "None", loaded |-> EmptyLoaded]

InitDiscover ==
    InitPure([base_url : BaseUrls, probes : [1..Len(test_paths) -> ProbeOutcomes]])

DiscoverModelsEndpoint ==
    PureCall("discover_models_endpoint", last.arg,
             discover_models_endpoint(last.arg.base_url, last.arg.probes))

NextDiscover == DiscoverModelsEndpoint

SpecDiscover == InitDiscover /\ [][NextDiscover]_vars

----------------------------------------------------------------------------
(* get_environment_variables on its own: Init draws what load_config_by_name
   returned and the host environment, the action calls the function. *)

Resolveds ==
    {EmptyLoaded} \cup
    [empty : {FALSE}, base_url : {NoKeyArgs.base_url, DirectKeyArgs.base_url},
     models : [Tiers -> {NoModel, "m1"}], api_key : {"", "sk-1", "MY_KEY"},
     api_key_type : {"direct", "envvar", "none", "oauth"}]

Environs ==
    {[n \in {} |-> ""], [n \in {"MY_KEY"} |-> "secret"], [n \in {"MY_KEY", "HOME"} |-> ""]}

InitEnv == InitPure([resolved : Resolveds, environ : Environs])

GetEnvironmentVariables ==
    PureCall("get_environment_variables", last.arg,
             get_environment_variables(last.arg.resolved, last.arg.environ))

NextEnv == GetEnvironmentVariables

SpecEnv == InitEnv /\ [][NextEnv]_vars

----------------------------------------------------------------------------
(* fetch_models and list_models on their own: Init draws the base URL and
   what the remote side answers, the actions call the two functions. *)

\* Elements of a JSON array: an object with an id, an object without one,
\* strings (among them the two key names) and a number
JsonItems ==
    {IdItem("m1"), Item("dict", FALSE, ""), StrItem("m2"), StrItem("data"),
     StrItem("models"), Item("num", FALSE, "7")}

JsonFields ==
    {NoField, ScalarField, ListField(<<>>), ListField(<<IdItem("m1"), StrItem("m2")>>)}

\* The documents response.json() can return
JsonDocs ==
    {DictDoc(d, m, o) : d \in JsonFields, m \in JsonFields, o \in BOOLEAN}
        \cup {ListDoc(items) : items \in SeqsUpTo(JsonItems, MaxItems)}
        \cup {StrDoc(t) : t \in {"", "data", "metadata", "models", "hello"}}
        \cup {NumDoc(n) : n \in {0, 5}}
        \cup {NullDoc}

InitFetch ==
    InitPure([base_url : {NoKeyArgs.base_url, DirectKeyArgs.base_url}, net : Nets(JsonDocs)])

FetchModels ==
    PureCall("fetch_models", last.arg, fetch_models(last.arg.base_url, last.arg.net))

ListModels ==
    PureCall("list_models", last.arg, list_models(last.arg.base_url, last.arg.net))

NextFetch == FetchModels \/ ListModels

SpecFetch == InitFetch /\ [][NextFetch]_vars

----------------------------------------------------------------------------
(* Properties.  In a state, pre.config / pre.file are the document and the
   file before the operation last.op, config / file those after it. *)

Called(op) == last.op = op

DefaultValid(c) == c.default_config = None \/ c.default_config \in DOMAIN c.configs

\* The configs of c that reference provider name
ConfigsOf(c, name) == {k \in DOMAIN c.configs : c.configs[k].provider = name}

\* C1 as stated: in every reachable state default_config is null or a key
\* of configs.  set_default_config stores any name, so this fails.
C1_DefaultNullOrKey == DefaultValid(config)

\* C1 amended: every operation keeps "default_config is null or a key of
\* configs" true, except set_default_config called with a name that is not
\* a key of configs.
C1_DefaultValidPreserved ==
    (/\ DefaultValid(pre.config)
     /\ ~(Called("set_default_config") /\ last.arg.name \notin DOMAIN pre.config.configs))
        => DefaultValid(config)

\* A mutation removed the key that default_config named, and reset it
C1_Witness ==
    /\ last.op \in {"remove_config", "remove_provider"}
    /\ pre.config.default_config \in DOMAIN pre.config.configs
    /\ pre.config.default_config \notin DOMAIN config.configs
    /\ config.default_config = None

\* C2: remove_provider(name) on an existing provider removes exactly the
\* configs that reference name and the provider entry; every other config
\* and every other provider entry is unchanged.
C2_RemoveProviderCascade ==
    (Called("remove_provider") /\ last.arg.name \in DOMAIN pre.config.providers) =>
        LET name == last.arg.name
        IN  /\ \A k \in DOMAIN config.configs : config.configs[k].provider # name
            /\ name \notin DOMAIN config.providers
            /\ DOMAIN config.configs = DOMAIN pre.config.configs \ ConfigsOf(pre.config, name)
            /\ \A k \in DOMAIN config.configs : config.configs[k] = pre.config.configs[k]
            /\ DOMAIN config.providers = DOMAIN pre.config.providers \ {name}
            /\ \A p \in DOMAIN config.providers : config.providers[p] = pre.config.providers[p]

\* A provider with a config is removed while a config of another provider survives
C2_Witness ==
    /\ Called("remove_provider")
    /\ last.arg.name \in DOMAIN pre.config.providers
    /\ ConfigsOf(pre.config, last.arg.name) # {}
    /\ DOMAIN config.configs # {}
    /\ DOMAIN config.providers # {}

\* remove_provider deleted the config that default_config named
DefaultCascaded ==
    /\ Called("remove_provider")
    /\ last.arg.name \in DOMAIN pre.config.providers
    /\ pre.config.default_config \in ConfigsOf(pre.config, last.arg.name)

ZeroModelsDiscovered ==
    /\ Called("add_provider")
    /\ ~last.arg.fetched.raised
    /\ \/ ~Truthy(last.arg.fetched.doc)
       \/ ~last.arg.listed.raised /\ last.arg.listed.names = <<>>

\* C4: add_provider returns false and leaves the providers map unchanged
\* whenever discovery yields zero models.
C4_AddProviderRejectsZeroModels ==
    ZeroModelsDiscovered =>
        last.ret = "False" /\ config.providers = pre.config.providers

\* A call made by add_provider raised
AddProviderRaised ==
    /\ Called("add_provider")
    /\ \/ last.arg.fetched.raised
       \/ Truthy(last.arg.fetched.doc) /\ last.arg.listed.raised

\* add_provider discovered a non-empty model list
AddProviderDiscovered ==
    /\ Called("add_provider")
    /\ ~last.arg.fetched.raised
    /\ Truthy(last.arg.fetched.doc)
    /\ ~last.arg.listed.raised
    /\ last.arg.listed.names # <<>>

\* C5: when a discovery call of add_provider raises, add_provider returns
\* false and document and file are unchanged; when discovery gives a
\* non-empty list, it returns true, providers[name] is exactly the given
\* base_url, the discovered list, api_key and api_key_type, every other
\* provider, configs and default_config are unchanged.
C5_AddProviderOutcome ==
    /\ AddProviderRaised =>
          last.ret = "False" /\ config = pre.config /\ file = pre.file
    /\ AddProviderDiscovered =>
          /\ last.ret = "True"
          /\ DOMAIN config.providers = DOMAIN pre.config.providers \cup {last.arg.name}
          /\ config.providers[last.arg.name] =
                [base_url |-> last.arg.base_url, models |-> last.arg.listed.names,
                 api_key |-> last.arg.api_key, api_key_type |-> last.arg.api_key_type]
          /\ \A p \in DOMAIN pre.config.providers \ {last.arg.name} :
                config.providers[p] = pre.config.providers[p]
          /\ config.configs = pre.config.configs
          /\ config.default_config = pre.config.default_config
          /\ file = FileOf(config)

\* An existing provider is overwritten with other settings while a config
\* and a default exist
C5_Witness ==
    /\ AddProviderDiscovered
    /\ last.arg.name \in DOMAIN pre.config.providers
    /\ pre.config.providers[last.arg.name].base_url # last.arg.base_url
    /\ pre.config.providers[last.arg.name].models # last.arg.listed.names
    /\ pre.config.default_config \in DOMAIN pre.config.configs

\* C6: load_config_by_name(name) changes nothing; it returns the empty
\* result when name is not a key of configs or the config's provider is
\* not a key of providers; otherwise base_url, api_key and api_key_type of
\* the current provider entry and the models of the saved config.
C6_LoadConfigByName ==
    Called("load_config_by_name") =>
        LET name == last.arg.name
        IN  /\ config = pre.config
            /\ file = pre.file
            /\ IF \/ name \notin DOMAIN config.configs
                  \/ config.configs[name].provider \notin DOMAIN config.providers
               THEN last.loaded.empty
               ELSE LET entry == config.providers[config.configs[name].provider]
                    IN  /\ ~last.loaded.empty
                        /\ last.loaded.base_url = entry.base_url
                        /\ last.loaded.api_key = entry.api_key
                        /\ last.loaded.api_key_type = entry.api_key_type
                        /\ last.loaded.models = config.configs[name].models

\* A config is resolved whose saved models differ from the scratch selection
C6_Witness ==
    /\ Called("load_config_by_name")
    /\ ~last.loaded.empty
    /\ last.loaded.models # config.models
    /\ last.loaded.api_key_type = "direct"

C8_SetModel ==
    /\ DOMAIN config.models = {"haiku", "sonnet", "opus"}
    /\ Called("set_model") =>
          IF last.arg.model_type \in {"haiku", "sonnet", "opus"}
          THEN /\ last.ret = "True"
               /\ config.models[last.arg.model_type] = last.arg.model_name
               /\ \A t \in DOMAIN pre.config.models \ {last.arg.model_type} :
                     config.models[t] = pre.config.models[t]
          ELSE /\ last.ret = "False"
               /\ config.models = pre.config.models
               /\ file = pre.file

\* An unknown tier is rejected when the scratch selection is not empty
C8_Witness ==
    /\ Called("set_model")
    /\ last.arg.model_type = "turbo"
    /\ last.arg.model_name = "m1"
    /\ last.ret = "False"
    /\ \E t \in Tiers : config.models[t] # NoModel

\* C9: save_config_as(name, provider_name) stores the provider name and
\* the scratch selection of that moment under normalize(name), overwriting
\* an entry of that key and leaving every other config, the providers and
\* default_config unchanged; a later set_model does not alter the models
\* of a saved config.
C9_SaveConfigAs ==
    /\ Called("save_config_as") =>
          LET key == normalize_config_name(last.arg.name)
          IN  /\ DOMAIN config.configs = DOMAIN pre.config.configs \cup {key}
              /\ config.configs[key].provider = last.arg.provider_name
              /\ config.configs[key].models = pre.config.models
              /\ \A k \in DOMAIN pre.config.configs \ {key} :
                    config.configs[k] = pre.config.configs[k]
              /\ config.providers = pre.config.providers
              /\ config.default_config = pre.config.default_config
    /\ Called("set_model") =>
          /\ DOMAIN config.configs = DOMAIN pre.config.configs
          /\ \A k \in DOMAIN config.configs :
                config.configs[k].models = pre.config.configs[k].models

\* A name that is not normalized overwrites the entry of its key with
\* another selection, next to another config
C9_Witness ==
    /\ Called("save_config_as")
    /\ normalize_config_name(last.arg.name) # last.arg.name
    /\ normalize_config_name(last.arg.name) \in DOMAIN pre.config.configs
    /\ pre.config.configs[normalize_config_name(last.arg.name)].models # pre.config.models
    /\ Cardinality(DOMAIN config.configs) > 1

NameChars == LowerLetters \cup Digits \cup {"-"}

IsNormalized(k) ==
    /\ \A i \in 1..Len(k) : k[i] \in NameChars
    /\ k # <<>> => k[1] # "-" /\ k[Len(k)] # "-"
    /\ \A i \in 1..(Len(k) - 1) : ~(k[i] = "-" /\ k[i + 1] = "-")

\* C10: every key of configs consists of a-z, 0-9 and dash only, with no
\* leading dash, no trailing dash and no two consecutive dashes.
C10_KeysNormalized ==
    \A k \in DOMAIN config.configs : IsNormalized(k)

\* A name with a run of separators around an invalid character was saved
\* under a key with a single inner dash
C10_Witness ==
    /\ Called("save_config_as")
    /\ last.arg.name = <<"A", "_", "!", "_", "A">>
    /\ <<"a", "-", "a">> \in DOMAIN config.configs
    /\ <<"a", "-", "a">> \notin DOMAIN pre.config.configs

----------------------------------------------------------------------------
\* The pipeline in the order the specification gives it: lowercase,
\* separators to dashes, drop invalid characters, collapse dash runs, trim.
SpecPipeline(name) ==
    StripDash(CollapseDashes(RemoveInvalid(ReplaceSeparators(Lower(name)))))

\* C11: normalize_config_name is idempotent, its result is empty or runs of
\* [a-z0-9] separated by single dashes with no dash at either end, and it
\* equals the result of the pipeline in the specification's order.
C11_NormalizeIdempotentShaped ==
    Called("normalize_config_name") =>
        /\ normalize_config_name(last.ret) = last.ret
        /\ IsNormalized(last.ret)
        /\ last.ret = SpecPipeline(last.arg.name)

\* A name with upper case, separators, an invalid character and a dash at
\* the end was normalized to two runs joined by one dash.
C11_Witness ==
    /\ Called("normalize_config_name")
    /\ Len(last.arg.name) = MaxNormLen
    /\ last.arg.name[Len(last.arg.name)] \in {"-", "_", " "}
    /\ \E i \in 1..Len(last.arg.name) : last.arg.name[i] = "A"
    /\ \E i \in 1..Len(last.ret) : last.ret[i] = "-"
    /\ Len(last.ret) < Len(last.arg.name)

----------------------------------------------------------------------------
\* The base URL with its trailing slashes and one trailing /v1 removed
EndsWithV1(u) == Len(u) >= 2 /\ u[Len(u) - 1] = "/" /\ u[Len(u)] = "v1"

WithoutTrailingV1(base_url) ==
    LET prefixes == {SubSeq(base_url, 1, n) : n \in 0..Len(base_url)}
        slashless == {u \in prefixes : u = <<>> \/ u[Len(u)] # "/"}
        rest(u) == SubSeq(base_url, Len(u) + 1, Len(base_url))
        allSlashes(t) == \A i \in 1..Len(t) : t[i] = "/"
        plain == CHOOSE u \in slashless : allSlashes(rest(u))
    IN  IF EndsWithV1(plain)
        THEN CHOOSE u \in slashless :
                 /\ Len(u) <= Len(plain) - 2
                 /\ allSlashes(SubSeq(base_url, Len(u) + 1, Len(plain) - 2))
        ELSE plain

----------------------------------------------------------------------------
\* Discovery found no endpoint, or the request to the endpoint did not yield
\* a parsed document
FetchFailed(arg) ==
    \/ discover_models_endpoint(arg.base_url, arg.net.probes).endpoint = NoUrl
    \/ arg.net.get.kind # "json"

\* C13: whatever the two probes and the request to the endpoint yield
\* (success, error status, transport error, unparsable body), no exception
\* escapes fetch_models, and when discovery finds no endpoint or the fetch
\* fails fetch_models returns not-found and list_models returns the empty
\* list without raising.
C13_FetchFailureSwallowed ==
    /\ Called("fetch_models") =>
           /\ ~last.ret.raised
           /\ FetchFailed(last.arg) => last.ret.doc = NullDoc
    /\ Called("list_models") /\ FetchFailed(last.arg) =>
           ~last.ret.raised /\ last.ret.names = <<>>

\* The document is none of the three recognised shapes
Unrecognised(doc) ==
    /\ doc.kind # "list"
    /\ ~(doc.kind = "dict" /\ doc.data.present /\ doc.data.isList)
    /\ ~(doc.kind = "dict" /\ doc.models.present /\ doc.models.isList)

\* C14: for every document the fetch step parses, list_models returns a
\* list and does not raise, and a document of no recognised shape yields
\* the empty list.
C14_ListModelsTotal ==
    Called("list_models") /\ ~FetchFailed(last.arg) =>
        /\ ~last.ret.raised
        /\ Unrecognised(last.arg.net.get.doc) => last.ret.names = <<>>

----------------------------------------------------------------------------
\* C15: update_provider(name) returns false and leaves the document and the
\* file as they were when name is not a provider or discovery raises;
\* otherwise it returns true and changes nothing but providers[name].models,
\* which becomes the discovered list.
C15_UpdateProviderFrame ==
    Called("update_provider") =>
        LET name == last.arg.name
            listed == last.arg.listed
            old == pre.config
        IN  IF name \notin DOMAIN old.providers \/ listed.raised
            THEN last.ret = "False" /\ config = old /\ file = pre.file
            ELSE /\ last.ret = "True"
                 /\ config.models = old.models
                 /\ config.configs = old.configs
                 /\ config.default_config = old.default_config
                 /\ DOMAIN config.providers = DOMAIN old.providers
                 /\ \A p \in DOMAIN old.providers \ {name} :
                        config.providers[p] = old.providers[p]
                 /\ config.providers[name] =
                        [old.providers[name] EXCEPT !.models = listed.names]

\* With two providers stored and a configuration saved, an update replaced
\* a provider's model list by a different, non-empty one
C15_Witness ==
    /\ Called("update_provider")
    /\ last.ret = "True"
    /\ Cardinality(DOMAIN pre.config.providers) = 2
    /\ pre.config.configs # EmptyDict
    /\ config.providers[last.arg.name].models # <<>>
    /\ config.providers[last.arg.name].models # pre.config.providers[last.arg.name].models
    /\ \E p \in DOMAIN config.providers :
           config.providers[p].models # config.providers[last.arg.name].models

----------------------------------------------------------------------------
\* C16: for a resolved configuration get_environment_variables returns
\* exactly the six ANTHROPIC_ entries: the auth token is the empty string,
\* the API key is the stored value for type direct, the value of the host
\* variable named by the stored value (empty if unset) for type envvar and
\* empty for every other type, the base URL and the three tier entries are
\* the resolved values, and a tier without selection stays None.
C16_EnvironmentVariables ==
    Called("get_environment_variables") /\ ~last.arg.resolved.empty =>
        LET r == last.arg.resolved
            environ == last.arg.environ
            env == last.ret.env
            tierEntry == [t \in Tiers |->
                            CASE t = "haiku"  -> env.ANTHROPIC_DEFAULT_HAIKU_MODEL
                              [] t = "sonnet" -> env.ANTHROPIC_DEFAULT_SONNET_MODEL
                              [] t = "opus"   -> env.ANTHROPIC_DEFAULT_OPUS_MODEL]
        IN  /\ ~last.ret.raised
            /\ DOMAIN env = EnvNames
            /\ env.ANTHROPIC_AUTH_TOKEN = <<"str", "">>
            /\ r.api_key_type = "direct" => env.ANTHROPIC_API_KEY = <<"str", r.api_key>>
            /\ r.api_key_type = "envvar" /\ r.api_key \in DOMAIN environ =>
                   env.ANTHROPIC_API_KEY = <<"str", environ[r.api_key]>>
            /\ r.api_key_type = "envvar" /\ r.api_key \notin DOMAIN environ =>
                   env.ANTHROPIC_API_KEY = <<"str", "">>
            /\ r.api_key_type \notin {"direct", "envvar"} =>
                   env.ANTHROPIC_API_KEY = <<"str", "">>
            /\ env.ANTHROPIC_BASE_URL = r.base_url
            /\ \A t \in Tiers : tierEntry[t] = <<"model", r.models[t]>>
            /\ \A t \in Tiers : r.models[t] = NoModel => tierEntry[t] # <<"str", "">>

\* The key came from a host variable that is set, one tier has a selection
\* and another has none
C16_Witness ==
    /\ Called("get_environment_variables")
    /\ last.arg.resolved.api_key_type = "envvar"
    /\ last.arg.resolved.api_key = "MY_KEY"
    /\ ~last.ret.raised
    /\ last.ret.env.ANTHROPIC_API_KEY = <<"str", "secret">>
    /\ last.ret.env.ANTHROPIC_DEFAULT_HAIKU_MODEL = <<"model", NoModel>>
    /\ last.ret.env.ANTHROPIC_DEFAULT_OPUS_MODEL = <<"model", "m1">>

----------------------------------------------------------------------------
\* check_and_update_default_config found a default that is not a key of configs
ResetDanglingDefault ==
    Called("check_and_update_default_config") /\ ~DefaultValid(pre.config)

\* The operation took a branch that assigns nothing and returns no verdict
NoOpBranch ==
    \/ Called("load_config_by_name")
    \/ Called("set_default_if_just_one_config") /\ Cardinality(DOMAIN pre.config.configs) # 1
    \/ Called("check_and_update_default_config") /\ DefaultValid(pre.config)

\* C17 as stated: after an operation that changed the document the file
\* holds the document, an operation that returns false writes nothing, and
\* a file that has been written equals the document.
C17_FalseMeansNoWrite ==
    /\ config # pre.config => file = FileOf(config)
    /\ last.ret = "False" => file = pre.file
    /\ file.state = "json" => file = FileOf(config)

\* C17: after an operation that changed the document the file holds the
\* document, every write stores the whole document, an operation that
\* returns false or takes a branch without assignment changes neither
\* document nor file, except check_and_update_default_config on a dangling
\* default, which nulls the default, writes and returns false; a file that
\* has been written equals the document between operations.
C17_FileFollowsDocument ==
    /\ config # pre.config => file = FileOf(config)
    /\ file # pre.file => file = FileOf(config)
    /\ last.ret = "False" /\ ~ResetDanglingDefault =>
           config = pre.config /\ file = pre.file
    /\ ResetDanglingDefault => last.ret = "False" /\ file = FileOf(config)
    /\ NoOpBranch => config = pre.config /\ file = pre.file
    /\ file.state = "json" => file = FileOf(config)

\* After earlier writes, check_and_update_default_config returned false and
\* rewrote the file with the default nulled
C17_Witness ==
    /\ ResetDanglingDefault
    /\ last.ret = "False"
    /\ pre.file.state = "json"
    /\ file # pre.file
    /\ file = FileOf(config)

----------------------------------------------------------------------------
\* The file is absent, cannot be opened or does not hold a JSON text
NoDocumentOnDisk(f) == f.state \in {"absent", "unreadable", "corrupt", "undecodable"}

\* C18: constructing the store on a file that is absent, unreadable or not
\* parseable yields the default document without raising and leaves the
\* file as it is; the file keeps its content until the first write, which
\* stores the whole document.
C18_ConstructionDefaults ==
    /\ Called("__init__") =>
           /\ file = pre.file
           /\ NoDocumentOnDisk(pre.file) => last.ret # "raised" /\ config = DefaultConfig
    /\ file # pre.file => file = FileOf(config)

----------------------------------------------------------------------------
\* What the validation of the add-provider flow discovers on the net it ran on
ValidationFinds(arg) == list_models(arg.base_url, arg.net)

\* C19: the add-provider flow stores a provider only with a non-empty model
\* list; when its discovery yields zero models it reports "No models found,
\* not saving provider" and leaves providers unchanged; the count it reports
\* on success is the length of the stored list.
C19_AddProviderFlow ==
    Called("_add_provider") /\ last.arg.name # "" =>
        /\ config.providers # pre.config.providers =>
               config.providers[last.arg.name].models # <<>>
        /\ ~ValidationFinds(last.arg).raised /\ ValidationFinds(last.arg).names = <<>> =>
               /\ last.ret = "No models found, not saving provider"
               /\ config.providers = pre.config.providers
        /\ last.ret = "added successfully" =>
               last.count = Len(config.providers[last.arg.name].models)

\* The delete flow removed the configuration that was the default
DeletedDefault ==
    /\ Called("_delete_provider") \/ Called("_delete_config")
    /\ pre.config.default_config \in DOMAIN pre.config.configs
    /\ pre.config.default_config \notin DOMAIN config.configs

\* C20: when a delete flow removed the default configuration, the editor
\* exits with status 1 if no configuration remains, and otherwise returns to
\* the menu with a default that is a key of configs: the only remaining
\* one, or the one the user picked.
C20_NewDefaultAfterDelete ==
    DeletedDefault =>
        /\ config.configs = EmptyDict <=> last.ret = "exit 1"
        /\ last.ret # "exit 1" => config.default_config \in DOMAIN config.configs
        /\ last.asked => config.default_config = last.arg.selected

----------------------------------------------------------------------------
\* The configuration load_configuration is to use: the one named after
\* --cci-use-config, else the default
NameToUse(c, cci_args) ==
    IF UseConfigName(cci_args) # None THEN UseConfigName(cci_args) ELSE c.default_config

Resolvable(c, cci_args) ==
    /\ NameToUse(c, cci_args) # None
    /\ ~load_config_by_name(c, NameToUse(c, cci_args)).empty

\* C21: load_configuration ends the process with exit status 1 when no
\* configuration can be resolved (none specified and no default, or the
\* name yields the empty result of load_config_by_name), and returns a
\* non-empty environment mapping only when one was resolved.
C21_LoadConfigurationExits ==
    Called("load_configuration") =>
        /\ ~Resolvable(pre.config, last.arg.cci_args) => last.ret = "exit 1"
        /\ last.ret = "returned" /\ ~last.empty => Resolvable(pre.config, last.arg.cci_args)

----------------------------------------------------------------------------
\* remove_provider was called with a name that is not a provider
RemovedAbsentProvider ==
    Called("remove_provider") /\ last.arg.name \notin DOMAIN pre.config.providers

RemovedProvider ==
    Called("remove_provider") /\ last.arg.name \in DOMAIN pre.config.providers

----------------------------------------------------------------------------
\* The entries a list of the `models` kind yields: ids of objects that have
\* one and bare strings, in document order
RECURSIVE IdsAndStrings(_)
IdsAndStrings(items) ==
    IF items = <<>> THEN <<>>
    ELSE IF Head(items).kind = "str" \/ (Head(items).kind = "dict" /\ Head(items).hasId)
         THEN <<Head(items).val>> \o IdsAndStrings(Tail(items))
         ELSE IdsAndStrings(Tail(items))

\* The ids of the objects that have one, in document order
RECURSIVE IdsOnly(_)
IdsOnly(items) ==
    IF items = <<>> THEN <<>>
    ELSE IF Head(items).kind = "dict" /\ Head(items).hasId
         THEN <<Head(items).val>> \o IdsOnly(Tail(items))
         ELSE IdsOnly(Tail(items))

\* C23: list_models takes the first shape that matches, in the order data,
\* models, top-level list: a data list yields the ids of its objects only
\* and the models key is then not consulted; without a data list a models
\* list yields ids and bare strings; a top-level list is handled like a
\* models list; document order is kept and nothing is deduplicated.
C23_FirstMatchingShape ==
    Called("list_models") /\ ~FetchFailed(last.arg) /\ Truthy(last.arg.net.get.doc) =>
        LET doc == last.arg.net.get.doc
            r == last.ret
        IN  /\ doc.kind = "dict" /\ doc.data.present /\ doc.data.isList =>
                   ~r.raised /\ r.names = IdsOnly(doc.data.items)
            /\ (/\ doc.kind = "dict"
                /\ ~(doc.data.present /\ doc.data.isList)
                /\ doc.models.present /\ doc.models.isList) =>
                   ~r.raised /\ r.names = IdsAndStrings(doc.models.items)
            /\ doc.kind = "list" =>
                   ~r.raised /\ r.names = IdsAndStrings(doc.items)

\* C24: when set_default_config is only called with a key of configs, then
\* in every reachable state a default_config that is not null names a key
\* of configs.
C24_ValidatedDefaultIsKey ==
    config.default_config # None => config.default_config \in DOMAIN config.configs

\* set_default_config moved the default to another existing config
C24_Witness ==
    /\ Called("set_default_config")
    /\ last.arg.name \in DOMAIN pre.config.configs
    /\ pre.config.default_config # None
    /\ pre.config.default_config # last.arg.name
    /\ config.default_config = last.arg.name

----------------------------------------------------------------------------
\* What the operation op(arg) makes of document c
Performed(c, op, arg) ==
    CASE op = "save_config_as" -> save_config_as(c, arg.name, arg.provider_name)
      [] op = "remove_config" -> remove_config(c, arg.name)
      [] op = "set_default_config" -> set_default_config(c, arg.name)
      [] op = "remove_provider" -> remove_provider(c, arg.name)

ByInstance == "instance" \in DOMAIN last

OwnDocument == IF last.instance = "A" THEN config ELSE peer

OtherDocument == IF last.instance = "A" THEN peer ELSE config

\* The other instance wrote the file last, and its document differs
OtherWroteLast == pre.file = FileOf(pre.other) /\ pre.other # pre.config

\* C25: an operation of one instance works on that instance's in-memory
\* document, never on the file, and leaves the other instance's document
\* alone; when it writes, the file is the whole document of the performing
\* instance, so a configuration that only the other instance had saved is
\* gone from the file unless this operation saved it too.
C25_LastWriterWins ==
    ByInstance =>
        /\ OtherDocument = pre.other
        /\ OwnDocument = Performed(pre.config, last.op, last.arg).config
        /\ last.wrote = Performed(pre.config, last.op, last.arg).wrote
        /\ ~last.wrote => file = pre.file
        /\ last.wrote =>
               /\ file = FileOf(OwnDocument)
               /\ \A k \in DOMAIN pre.other.configs \ DOMAIN pre.config.configs :
                      \/ k \notin DOMAIN file.doc.configs
                      \/ /\ last.op = "save_config_as"
                         /\ normalize_config_name(last.arg.name) = k

\* A saved a configuration and wrote it, then B wrote: the file is B's
\* document and A's configuration is not in it
C25_Witness ==
    /\ ByInstance /\ last.instance = "B" /\ last.wrote
    /\ OtherWroteLast
    /\ file = FileOf(peer)
    /\ \E k \in DOMAIN config.configs :
           k \in DOMAIN pre.file.doc.configs /\ k \notin DOMAIN file.doc.configs

----------------------------------------------------------------------------
\* C26: save_config_as with a name whose normalized form is empty does not
\* raise and adds no entry, and the empty string is never a key of configs.
C26_EmptyNameRejected ==
    /\ <<>> \notin DOMAIN config.configs
    /\ (Called("save_config_as") /\ normalize_config_name(last.arg.name) = <<>>) =>
           /\ last.ret # "raised"
           /\ config.configs = pre.config.configs

----------------------------------------------------------------------------
\* C27: update_provider on an existing provider whose discovery returns the
\* empty list without raising returns true, stores the empty list in place
\* of the cached models and writes the file; the cached list stays as it
\* was only when the discovery raised (then the result is false) or when
\* the discovered list equals it.
C27_UpdateProviderEmptyList ==
    (Called("update_provider") /\ last.arg.name \in DOMAIN pre.config.providers) =>
        LET listed == last.arg.listed
            cached == pre.config.providers[last.arg.name].models
            stored == config.providers[last.arg.name].models
        IN  /\ (~listed.raised /\ listed.names = <<>>) =>
                   last.ret = "True" /\ stored = <<>> /\ file = FileOf(config)
            /\ listed.raised => last.ret = "False" /\ stored = cached
            /\ stored = cached => listed.raised \/ listed.names = cached

\* An update that discovered nothing emptied a non-empty cached list
C27_Witness ==
    /\ Called("update_provider")
    /\ last.arg.name \in DOMAIN pre.config.providers
    /\ ~last.arg.listed.raised
    /\ last.arg.listed.names = <<>>
    /\ pre.config.providers[last.arg.name].models # <<>>
    /\ config.providers[last.arg.name].models = <<>>
    /\ last.ret = "True"

----------------------------------------------------------------------------
\* C28: when save_config_as is only called for a stored provider, every
\* saved configuration names a stored provider in every reachable state,
\* and load_config_by_name of a saved configuration resolves it.
C28_ProvidersReferenced ==
    /\ \A k \in DOMAIN config.configs : config.configs[k].provider \in DOMAIN config.providers
    /\ (Called("load_config_by_name") /\ last.arg.name \in DOMAIN config.configs) =>
           /\ ~last.loaded.empty
           /\ last.loaded.base_url =
                  config.providers[config.configs[last.arg.name].provider].base_url

\* remove_provider took the configurations of its provider with it and
\* left a configuration of the other provider
C28_Witness ==
    /\ Called("remove_provider")
    /\ ConfigsOf(pre.config, last.arg.name) # {}
    /\ last.arg.name \notin DOMAIN config.providers
    /\ config.configs # EmptyDict
    /\ \A k \in DOMAIN config.configs : config.configs[k].provider \in DOMAIN config.providers

----------------------------------------------------------------------------
\* The configuration stored under normalize(name) names a stored provider
ExistsNormalized(c, name) ==
    /\ normalize_config_name(name) \in DOMAIN c.configs
    /\ c.configs[normalize_config_name(name)].provider \in DOMAIN c.providers

\* C29: right after save_config_as(name, p) with p stored, and whenever a
\* configuration of a stored provider exists under normalize(name),
\* load_config_by_name(name) returns that configuration and
\* remove_config(name) returns true exactly when name = normalize(name);
\* for every other name they return the empty result and false.
C29_VerbatimLookup ==
    /\ (Called("save_config_as") /\ last.arg.provider_name \in DOMAIN config.providers) =>
           LET name == last.arg.name
               found == load_config_by_name(config, name)
           IN  /\ ExistsNormalized(config, name)
               /\ name = normalize_config_name(name) =>
                      /\ ~found.empty
                      /\ found.models = config.configs[name].models
                      /\ found.base_url = config.providers[last.arg.provider_name].base_url
                      /\ remove_config(config, name).ret = "True"
               /\ name # normalize_config_name(name) =>
                      /\ found.empty
                      /\ remove_config(config, name).ret = "False"
    /\ (Called("load_config_by_name") /\ ExistsNormalized(config, last.arg.name)) =>
           (~last.loaded.empty <=> last.arg.name = normalize_config_name(last.arg.name))
    /\ (Called("remove_config") /\ ExistsNormalized(pre.config, last.arg.name)) =>
           (last.ret = "True" <=> last.arg.name = normalize_config_name(last.arg.name))

\* A lookup by the raw name found nothing although the configuration is
\* stored under the normalized name
C29_Witness ==
    /\ Called("load_config_by_name")
    /\ last.arg.name # normalize_config_name(last.arg.name)
    /\ ExistsNormalized(config, last.arg.name)
    /\ last.loaded.empty

----------------------------------------------------------------------------
\* C30: the delete-config flow leaves the document and the file alone
\* when the selected key is "q", and the delete-provider flow when the
\* selection is "q" or "Q", so such a configuration or provider stays; a
\* configuration of any other name is gone once the user confirmed, and so
\* is a provider of any other name once the user confirmed (twice when it
\* has configurations).
C30_DeleteFlowsCancelOnQ ==
    /\ Called("_delete_config") =>
           LET config_name == last.arg.config_name
           IN  /\ Lower(config_name) = <<"q">> =>
                      /\ config = pre.config /\ file = pre.file
                      /\ config_name \in DOMAIN config.configs
               /\ (/\ Lower(config_name) # <<"q">>
                   /\ config_name \in DOMAIN pre.config.configs
                   /\ last.arg.confirm) =>
                      config_name \notin DOMAIN config.configs
    /\ Called("_delete_provider") =>
           LET choice == last.arg.choice
           IN  /\ choice \in {"q", "Q"} =>
                      /\ config = pre.config /\ file = pre.file
               /\ (/\ choice \notin {"q", "Q"}
                   /\ choice \in DOMAIN pre.config.providers
                   /\ last.arg.confirm
                   /\ last.arg.confirm_configs \/ ConfigsOf(pre.config, choice) = {}) =>
                      /\ choice \notin DOMAIN config.providers
                      /\ ConfigsOf(config, choice) = {}

\* The user selected the stored provider "Q" for deletion and it is still
\* stored, next to the configuration "q"
C30_Witness ==
    /\ Called("_delete_provider")
    /\ last.arg.choice = "Q"
    /\ "Q" \in DOMAIN config.providers
    /\ <<"q">> \in DOMAIN config.configs

====
